---- MODULE Spec2Model ----
(***************************************************************************)
(* A model of the gnark frontend constraint-system builder                 *)
(* (frontend.ConstraintSystem, cs_api) and of the noComputation test       *)
(* circuit (public A, secret B).  The builder state is the coefficient     *)
(* table, the constraint list, the assertion list, the log list and the    *)
(* wire counts.  Each API call is one action.  Linear expressions are       *)
(* sequences of terms (coefficient id, wire id, visibility); coefficients  *)
(* are unbounded integers (big.Int), as in the builder; a witness is an     *)
(* assignment of field values to wires and constraints are evaluated        *)
(* modulo the prime of the selected curve.                                  *)
(***************************************************************************)
EXTENDS Integers, Sequences, FiniteSets, TLC

VARIABLES coeffs, constraints, assertions, logs, wires, panicked, vars, bits, nbOps, last

vars_all == <<coeffs, constraints, assertions, logs, wires, panicked, vars, bits, nbOps, last>>

(***************************************************************************)
(* Bounds of the model                                                     *)
(***************************************************************************)
\* number of builder calls made by one Define
MaxOps == 2
\* mustBeLessOrEqVar: the number of bits of the range check (256 in the code)
nbBits == 3
\* mustBeLessOrEqCst: bits per word of the bound (64 in the code)
wordSize == 2
\* mustBeLessOrEqCst: words of the bound (4 in the code)
nbWords == 2
\* mustBeLessOrEqCst: the number of bits of the range check (256 = 4 * 64 in the code)
nbBitsCst == nbWords * wordSize

(***************************************************************************)
(* Data model                                                              *)
(***************************************************************************)
CoeffIdZero == 0
CoeffIdOne == 1
CoeffIdMinusOne == 2
CoeffIdTwo == 3

\* the coefficient table of a fresh constraint system: 0, 1, -1, 2
InitCoeffs == <<0, 1, -1, 2>>

\* order of the visibilities in the key (visibility, wire id) of a term
VisRank(vis) ==
  CASE vis = "public" -> 0
    [] vis = "secret" -> 1
    [] vis = "internal" -> 2
    [] vis = "one" -> 3
    [] OTHER -> 4

\* Wire{}: the zero value, no wire set
NoWire == [vis |-> "unset", id |-> 0]
OneWire == [vis |-> "one", id |-> 0]

\* Variable{Wire, linExp, isBoolean}
Variable(w, le, isb) == [wire |-> w, linExp |-> le, isBoolean |-> isb]

\* the zero value of Variable
NoVariable == Variable(NoWire, <<>>, FALSE)

\* an interface{} operand: a Variable or a constant convertible to big.Int
Var(v) == [isVar |-> TRUE, v |-> v, n |-> 0]
Cst(n) == [isVar |-> FALSE, v |-> NoVariable, n |-> n]

\* result of a builder function: the constraint system after it, and its value
R(cs, x) == [cs |-> cs, x |-> x]

\* The({ e : x \in {v} }) is e with x naming the value v, computed once.  In a nest
\* of such bindings the outermost one, written last, is the first statement of the
\* code and the innermost expression its return value.
The(S) == CHOOSE y \in S : TRUE

\* hints of a constraint
SingleOutput == "SingleOutput"
BinaryDec == "BinaryDec"

\* newR1C clones the three linear expressions
newR1C(l, r, o, hint) == [L |-> l.linExp, R |-> r.linExp, O |-> o.linExp, hint |-> hint]

(***************************************************************************)
(* Coefficient pool and terms                                              *)
(***************************************************************************)
coeffID(cs, b) ==
  IF b = 0 THEN R(cs, CoeffIdZero)
  ELSE IF b = 1 THEN R(cs, CoeffIdOne)
  ELSE IF b = -1 THEN R(cs, CoeffIdMinusOne)
  ELSE IF b = 2 THEN R(cs, CoeffIdTwo)
  ELSE IF \E i \in 1..Len(cs.coeffs) : cs.coeffs[i] = b
       THEN R(cs, (CHOOSE i \in 1..Len(cs.coeffs) : cs.coeffs[i] = b) - 1)
       ELSE R([cs EXCEPT !.coeffs = Append(@, b)], Len(cs.coeffs))

\* cs.coeffs[coeffID]
Coeff(cs, id) == cs.coeffs[id + 1]

makeTerm(cs, w, coeff) ==
  The({ R(r.cs, [cID |-> r.x, vID |-> w.id, vis |-> w.vis])
        : r \in {coeffID(cs, coeff)} })

getOneVariable == Variable(OneWire, <<[cID |-> CoeffIdOne, vID |-> 0, vis |-> "one"]>>, FALSE)

newInternalVariable(cs) ==
  LET w == [vis |-> "internal", id |-> cs.wires.internal]
  IN R([cs EXCEPT !.wires.internal = @ + 1],
       Variable(w, <<[cID |-> CoeffIdOne, vID |-> w.id, vis |-> "internal"]>>, FALSE))

\* a dangling Variable (wire set, empty linear expression) becomes 1*wire
completeDanglingVariable(v) ==
  IF Len(v.linExp) = 0 /\ v.wire.vis # "unset"
  THEN [v EXCEPT !.linExp = <<[cID |-> CoeffIdOne, vID |-> v.wire.id, vis |-> v.wire.vis]>>]
  ELSE v

(***************************************************************************)
(* Reduction of a linear expression                                        *)
(***************************************************************************)
KeyLess(k1, k2) ==
  \/ VisRank(k1.vis) < VisRank(k2.vis)
  \/ VisRank(k1.vis) = VisRank(k2.vis) /\ k1.id < k2.id

Keys(l) == {[vis |-> l[i].vis, id |-> l[i].vID] : i \in 1..Len(l)}

RECURSIVE SortKeys(_)
SortKeys(S) ==
  IF S = {} THEN <<>>
  ELSE LET m == CHOOSE k \in S : \A k2 \in S \ {k} : KeyLess(k, k2)
       IN <<m>> \o SortKeys(S \ {m})

RECURSIVE SumCoeffs(_, _, _, _)
SumCoeffs(cs, l, k, i) ==
  IF i > Len(l) THEN 0
  ELSE (IF l[i].vis = k.vis /\ l[i].vID = k.id THEN Coeff(cs, l[i].cID) ELSE 0)
       + SumCoeffs(cs, l, k, i + 1)

RECURSIVE reduceKeys(_, _, _, _, _)
reduceKeys(cs, l, ks, i, acc) ==
  IF i > Len(ks) THEN R(cs, acc)
  ELSE The({ IF c = 0 THEN reduceKeys(cs, l, ks, i + 1, acc)
             ELSE The({ reduceKeys(t.cs, l, ks, i + 1, Append(acc, t.x))
                        : t \in {makeTerm(cs, ks[i], c)} })
             : c \in {SumCoeffs(cs, l, ks[i], 1)} })

reduce(cs, l) == reduceKeys(cs, l, SortKeys(Keys(l)), 1, <<>>)

(***************************************************************************)
(* Arithmetic operations                                                   *)
(***************************************************************************)
RECURSIVE mulConstantLoop(_, _, _, _, _)
mulConstantLoop(cs, lambda, l, i, acc) ==
  IF i > Len(l) THEN R(cs, acc)
  ELSE The({ mulConstantLoop(t.cs, lambda, l, i + 1, Append(acc, t.x))
             : t \in {makeTerm(cs, [vis |-> l[i].vis, id |-> l[i].vID],
                               Coeff(cs, l[i].cID) * lambda)} })

\* mulConstant giving its result a fresh internal wire
mulConstant_AllocatesWire(cs, lambda, v) ==
  IF cs.panicked THEN R(cs, NoVariable)
  ELSE The({ R([r.cs EXCEPT !.wires.internal = @ + 1], Variable(NoWire, r.x, FALSE))
             : r \in {mulConstantLoop(cs, lambda, v.linExp, 1, <<>>)} })

\* mulConstant(i, v): every coefficient of v times the constant i; not reduced
mulConstant(cs, lambda, v) ==
  IF cs.panicked THEN R(cs, NoVariable)
  ELSE The({ R(r.cs, Variable(NoWire, r.x, FALSE))
             : r \in {mulConstantLoop(cs, lambda, v.linExp, 1, <<>>)} })

\* Constant(input): a Variable operand completed, the one-wire for 1, else n * one
Constant(cs, input) ==
  IF cs.panicked THEN R(cs, NoVariable)
  ELSE IF input.isVar THEN R(cs, completeDanglingVariable(input.v))
  ELSE IF input.n = 1 THEN R(cs, getOneVariable)
  ELSE mulConstant(cs, input.n, getOneVariable)

RECURSIVE negateLoop(_, _, _, _)
negateLoop(cs, l, i, acc) ==
  IF i > Len(l) THEN R(cs, acc)
  ELSE The({ negateLoop(t.cs, l, i + 1, Append(acc, t.x))
             : t \in {makeTerm(cs, [vis |-> l[i].vis, id |-> l[i].vID], -Coeff(cs, l[i].cID))} })

negateLinExp(cs, l) == negateLoop(cs, l, 1, <<>>)

RECURSIVE addLoop(_, _, _, _)
addLoop(cs, ops, i, acc) ==
  IF i > Len(ops) \/ cs.panicked THEN R(cs, acc)
  ELSE The({ addLoop(c.cs, ops, i + 1, acc \o c.x.linExp)
             : c \in {Constant(cs, ops[i])} })

\* Add(i1, i2, in...): ops is the sequence <<i1, i2, in...>>
Add(cs, ops) ==
  The({ The({ R(r.cs, Variable(NoWire, r.x, FALSE))
        : r \in {reduce(a.cs, a.x)} })
        : a \in {addLoop(cs, ops, 1, <<>>)} })

\* Neg(i): a Variable operand is negated as it is (it is not completed)
Neg(cs, i) ==
  IF cs.panicked THEN R(cs, NoVariable)
  ELSE IF i.isVar
  THEN The({ R(r.cs, Variable(NoWire, r.x, FALSE))
             : r \in {negateLinExp(cs, i.v.linExp)} })
  ELSE IF -(i.n) = 1 THEN R(cs, getOneVariable)
  ELSE Constant(cs, Cst(-(i.n)))

Sub(cs, i1, i2) ==
  IF cs.panicked THEN R(cs, NoVariable)
  ELSE The({ The({ The({ The({ R(r.cs, Variable(NoWire, r.x, FALSE))
             : r \in {reduce(n.cs, a.x.linExp \o n.x)} })
             : n \in {negateLinExp(b.cs, b.x.linExp)} })
             : b \in {Constant(a.cs, i2)} })
             : a \in {Constant(cs, i1)} })

\* mul with the two operands of the constraint exchanged
mul_SwappedOperands(cs, i1, i2) ==
  IF cs.panicked THEN R(cs, NoVariable)
  ELSE IF i1.isVar
  THEN IF i2.isVar
       THEN LET t1 == completeDanglingVariable(i1.v)
                t2 == completeDanglingVariable(i2.v)
            IN The({ R([z.cs EXCEPT !.constraints =
                           Append(@, newR1C(t2, t1, z.x, SingleOutput))], z.x)
                     : z \in {newInternalVariable(cs)} })
       ELSE mulConstant(cs, i2.n, completeDanglingVariable(i1.v))
  ELSE IF i2.isVar
       THEN mulConstant(cs, i1.n, completeDanglingVariable(i2.v))
       ELSE Constant(cs, Cst(i1.n * i2.n))

\* mul putting the constraint of a product at the head of the constraint list
mul_PrependsConstraint(cs, i1, i2) ==
  IF cs.panicked THEN R(cs, NoVariable)
  ELSE IF i1.isVar
  THEN IF i2.isVar
       THEN LET t1 == completeDanglingVariable(i1.v)
                t2 == completeDanglingVariable(i2.v)
            IN The({ R([z.cs EXCEPT !.constraints =
                           <<newR1C(t1, t2, z.x, SingleOutput)>> \o @], z.x)
                     : z \in {newInternalVariable(cs)} })
       ELSE mulConstant(cs, i2.n, completeDanglingVariable(i1.v))
  ELSE IF i2.isVar
       THEN mulConstant(cs, i1.n, completeDanglingVariable(i2.v))
       ELSE Constant(cs, Cst(i1.n * i2.n))

\* the closure mul of Mul: one product of two operands
mul(cs, i1, i2) ==
  IF cs.panicked THEN R(cs, NoVariable)
  ELSE IF i1.isVar
  THEN IF i2.isVar
       THEN LET t1 == completeDanglingVariable(i1.v)
                t2 == completeDanglingVariable(i2.v)
            IN The({ R([z.cs EXCEPT !.constraints =
                           Append(@, newR1C(t1, t2, z.x, SingleOutput))], z.x)
                     : z \in {newInternalVariable(cs)} })
       ELSE mulConstant(cs, i2.n, completeDanglingVariable(i1.v))
  ELSE IF i2.isVar
       THEN mulConstant(cs, i1.n, completeDanglingVariable(i2.v))
       ELSE Constant(cs, Cst(i1.n * i2.n))

RECURSIVE mulFold(_, _, _, _)
mulFold(cs, res, ops, i) ==
  IF i > Len(ops) \/ cs.panicked THEN R(cs, res)
  ELSE The({ mulFold(m.cs, m.x, ops, i + 1) : m \in {mul(cs, Var(res), ops[i])} })

\* Mul(i1, i2, in...): ops is the sequence <<i1, i2, in...>>
Mul(cs, ops) ==
  The({ mulFold(m.cs, m.x, ops, 3) : m \in {mul(cs, ops[1], ops[2])} })

Inverse(cs, v0) ==
  LET v == completeDanglingVariable(v0)
  IN The({ R([z.cs EXCEPT !.constraints =
                 Append(@, newR1C(v, z.x, getOneVariable, SingleOutput))], z.x)
           : z \in {newInternalVariable(cs)} })

Div(cs, i1, i2) ==
  The({ The({ The({ R([t2.cs EXCEPT !.constraints =
                          Append(@, newR1C(t2.x, z.x, t1.x, SingleOutput))], z.x)
        : t2 \in {Constant(t1.cs, i2)} })
        : t1 \in {Constant(z.cs, i1)} })
        : z \in {newInternalVariable(cs)} })

(***************************************************************************)
(* Assertions on one Variable, boolean gates                               *)
(***************************************************************************)
\* getCallStack(): the frames of the caller, opaque here
getCallStack == <<"stack">>

\* logEntry{format, toResolve}; a format is a sequence of string pieces
logEntry(format, toResolve) == [format |-> format, toResolve |-> toResolve]

\* addAssertion: the assertion joins the assertion list, its debug info the log list
addAssertion(cs, r1c, debugInfo) ==
  [cs EXCEPT !.assertions = Append(@, [L |-> r1c.L, R |-> r1c.R, O |-> r1c.O,
                                       hint |-> r1c.hint, log |-> Len(cs.logs)]),
             !.logs = Append(@, debugInfo)]

\* AssertIsBoolean(v): v is a copy of the caller's Variable; x is that copy on return
AssertIsBoolean(cs, v0) ==
  LET v == completeDanglingVariable(v0)
  IN IF cs.panicked \/ v.isBoolean THEN R(cs, v)
     ELSE LET vb == [v EXCEPT !.isBoolean = TRUE]
              debugInfo == logEntry(<<"error AssertIsBoolean">> \o getCallStack, <<>>)
          IN The({ The({ R(addAssertion(o.cs, newR1C(vb, nv.x, o.x, SingleOutput), debugInfo), vb)
                   : o \in {Constant(nv.cs, Cst(0))} })
                   : nv \in {Sub(cs, Cst(1), Var(v))} })

\* Xor without the factor 2 of a
Xor_NoDoubling(cs, a0, b0) ==
  LET a == completeDanglingVariable(a0)
      b == completeDanglingVariable(b0)
      c1 == AssertIsBoolean(cs, a).cs
      c2 == AssertIsBoolean(c1, b).cs
  IN The({ The({ The({ The({ R([v3.cs EXCEPT !.constraints =
                                   Append(@, newR1C(v1.x, b, v3.x, SingleOutput))], res.x)
           : v3 \in {Sub(v2.cs, Var(v2.x), Var(res.x))} })
           : v2 \in {Add(v1.cs, <<Var(a), Var(b)>>)} })
           : v1 \in {Mul(res.cs, <<Cst(1), Var(a)>>)} })
           : res \in {newInternalVariable(c2)} })

Xor(cs, a0, b0) ==
  LET a == completeDanglingVariable(a0)
      b == completeDanglingVariable(b0)
      c1 == AssertIsBoolean(cs, a).cs
      c2 == AssertIsBoolean(c1, b).cs
  IN The({ The({ The({ The({ R([v3.cs EXCEPT !.constraints =
                                   Append(@, newR1C(v1.x, b, v3.x, SingleOutput))], res.x)
           : v3 \in {Sub(v2.cs, Var(v2.x), Var(res.x))} })
           : v2 \in {Add(v1.cs, <<Var(a), Var(b)>>)} })
           : v1 \in {Mul(res.cs, <<Cst(2), Var(a)>>)} })
           : res \in {newInternalVariable(c2)} })

Or(cs, a0, b0) ==
  LET a == completeDanglingVariable(a0)
      b == completeDanglingVariable(b0)
      c1 == AssertIsBoolean(cs, a).cs
      c2 == AssertIsBoolean(c1, b).cs
  IN The({ The({ The({ R([v2.cs EXCEPT !.constraints =
                             Append(@, newR1C(b, v1.x, v2.x, SingleOutput))], res.x)
           : v2 \in {Sub(v1.cs, Var(res.x), Var(a))} })
           : v1 \in {Sub(res.cs, Cst(1), Var(a))} })
           : res \in {newInternalVariable(c2)} })

And(cs, a0, b0) ==
  LET a == completeDanglingVariable(a0)
      b == completeDanglingVariable(b0)
      c1 == AssertIsBoolean(cs, a).cs
      c2 == AssertIsBoolean(c1, b).cs
  IN Mul(c2, <<Var(a), Var(b)>>)

(***************************************************************************)
(* IsZero, ToBinary, FromBinary, Select                                    *)
(***************************************************************************)
RECURSIVE Pow2(_)
Pow2(n) == IF n = 0 THEN 1 ELSE 2 * Pow2(n - 1)

\* big.Int.Bit(i)
Bit(n, i) == (n \div Pow2(i)) % 2

\* len(big.Int.Bytes()): the length of the minimal big-endian byte string
RECURSIVE ByteLen(_)
ByteLen(n) == IF n = 0 THEN 0 ELSE 1 + ByteLen(n \div 256)

CurveIDs == {"BN254", "BLS12_381", "BLS12_377", "BW6_761", "BLS24_315", "BW6_633"}

\* fr.Modulus() of each curve; the model gives each curve a small odd prime
Modulus(id) ==
  CASE id = "BN254" -> 7
    [] id = "BLS12_381" -> 5
    [] id = "BLS12_377" -> 3
    [] id = "BW6_761" -> 13
    [] id = "BLS24_315" -> 11
    [] id = "BW6_633" -> 17

RECURSIVE isZeroLoop(_, _, _, _, _)
isZeroLoop(cs, res, a, expo, i) ==
  IF i < 1 \/ cs.panicked THEN R(cs, res)
  ELSE The({ IF Bit(expo, i) = 1
             THEN The({ isZeroLoop(m.cs, m.x, a, expo, i - 1)
                        : m \in {Mul(sq.cs, <<Var(sq.x), Var(a)>>)} })
             ELSE isZeroLoop(sq.cs, sq.x, a, expo, i - 1)
             : sq \in {Mul(cs, <<Var(res), Var(res)>>)} })

\* IsZero without the final squaring
IsZero_NoFinalSquaring(cs, a, id) ==
  IF id \notin CurveIDs THEN R([cs EXCEPT !.panicked = TRUE], a)
  ELSE LET expo == Modulus(id)
       IN The({ The({ Sub(lp.cs, Cst(1), Var(lp.x))
                : lp \in {isZeroLoop(one.cs, one.x, a, expo, ByteLen(expo) * 8 - 1)} })
                : one \in {Constant(cs, Cst(1))} })

\* IsZero(a, id); an id that is no curve panics ("not implemented")
IsZero(cs, a, id) ==
  IF id \notin CurveIDs THEN R([cs EXCEPT !.panicked = TRUE], a)
  ELSE LET expo == Modulus(id)
       IN The({ The({ The({ Sub(sq.cs, Cst(1), Var(sq.x))
                : sq \in {Mul(lp.cs, <<Var(lp.x), Var(lp.x)>>)} })
                : lp \in {isZeroLoop(one.cs, one.x, a, expo, ByteLen(expo) * 8 - 1)} })
                : one \in {Constant(cs, Cst(1))} })

RECURSIVE toBinaryAlloc(_, _, _, _)
toBinaryAlloc(cs, nb, i, res) ==
  IF i >= nb \/ cs.panicked THEN R(cs, res)
  ELSE The({ toBinaryAlloc(AssertIsBoolean(z.cs, z.x).cs, nb, i + 1, Append(res, z.x))
             : z \in {newInternalVariable(cs)} })

RECURSIVE toBinarySum(_, _, _, _, _)
toBinarySum(cs, res, i, coeff, v) ==
  IF i >= Len(res) \/ cs.panicked THEN R(cs, v)
  ELSE The({ The({ toBinarySum(s.cs, res, i + 1, coeff * 2, s.x)
             : s \in {Add(m.cs, <<Var(v), Var(m.x)>>)} })
             : m \in {Mul(cs, <<Cst(coeff), Var(res[i + 1])>>)} })

\* ToBinary(a, nbBits): x is the list of bits, res[i+1] the bit of weight 2^i.
\* With nbBits = 0 the read of res[0] is out of range and the call panics.
ToBinary(cs, a0, nb) ==
  LET a == completeDanglingVariable(a0)
  IN IF cs.panicked THEN R(cs, <<>>)
     ELSE The({ IF nb = 0 THEN R([al.cs EXCEPT !.panicked = TRUE], <<>>)
                ELSE The({ The({ R([v.cs EXCEPT !.constraints =
                                       Append(@, newR1C(v.x, getOneVariable, a, BinaryDec))], al.x)
                           : v \in {toBinarySum(v0.cs, al.x, 1, 2, v0.x)} })
                           : v0 \in {Mul(al.cs, <<Var(al.x[1]), Cst(1)>>)} })
                : al \in {toBinaryAlloc(cs, nb, 0, <<>>)} })

RECURSIVE fromBinaryLoop(_, _, _, _, _)
fromBinaryLoop(cs, b, i, coeff, res) ==
  IF i >= Len(b) \/ cs.panicked THEN R(cs, res)
  ELSE LET bi == completeDanglingVariable(b[i + 1])
       IN The({ The({ fromBinaryLoop(AssertIsBoolean(s.cs, bi).cs, b, i + 1, coeff * 2, s.x)
                : s \in {Add(m.cs, <<Var(m.x), Var(res)>>)} })
                : m \in {Mul(cs, <<Cst(coeff), Var(bi)>>)} })

\* FromBinary with the first bit weighted 2
FromBinary_StartsAtTwo(cs, b) ==
  The({ fromBinaryLoop(zero.cs, b, 0, 2, zero.x) : zero \in {Constant(cs, Cst(0))} })

\* FromBinary(b...)
FromBinary(cs, b) ==
  The({ fromBinaryLoop(zero.cs, b, 0, 1, zero.x) : zero \in {Constant(cs, Cst(0))} })

\* Select(b, i1, i2)
Select(cs, b0, i1, i2) ==
  LET b == completeDanglingVariable(b0)
      t1 == IF i1.isVar THEN Var(completeDanglingVariable(i1.v)) ELSE i1
      t2 == IF i2.isVar THEN Var(completeDanglingVariable(i2.v)) ELSE i2
      diff == i2.n - i1.n
  IN IF cs.panicked THEN R(cs, NoVariable)
     ELSE The({ IF i1.isVar \/ i2.isVar
                THEN The({ The({ The({ R([w.cs EXCEPT !.constraints =
                                             Append(@, newR1C(b, v.x, w.x, SingleOutput))], res.x)
                           : w \in {Sub(v.cs, Var(res.x), t2)} })
                           : v \in {Sub(res.cs, t1, t2)} })
                           : res \in {newInternalVariable(c0)} })
                ELSE The({ Add(m.cs, <<Var(m.x), i2>>)
                           : m \in {Mul(c0, <<Var(b), Cst(diff)>>)} })
                : c0 \in {AssertIsBoolean(cs, b).cs} })

(***************************************************************************)
(* AssertIsEqual, AssertIsLessOrEqual, Println                             *)
(***************************************************************************)
RECURSIVE formatTerms(_, _, _)
formatTerms(cs, l, i) ==
  IF i > Len(l) THEN <<>>
  ELSE (IF i > 1 THEN <<" + ">> ELSE <<>>)
       \o <<"(%s * ", ToString(Coeff(cs, l[i].cID)), ")">>
       \o formatTerms(cs, l, i + 1)

buildLogEntryFromVariable(cs, v) == logEntry(formatTerms(cs, v.linExp, 1), v.linExp)

\* AssertIsEqual with i1 on both sides
AssertIsEqual_SameSide(cs, i1, i2) ==
  The({ The({ The({
        LET lhs == buildLogEntryFromVariable(o.cs, l.x)
            rhs == buildLogEntryFromVariable(o.cs, o.x)
            debugInfo == logEntry(<<"[">> \o lhs.format \o <<" != ">> \o rhs.format \o <<"]">>,
                                  lhs.toResolve \o rhs.toResolve)
        IN addAssertion(o.cs, newR1C(l.x, r.x, o.x, SingleOutput), debugInfo)
        : o \in {Constant(r.cs, i1)} })
        : r \in {Constant(l.cs, Cst(1))} })
        : l \in {Constant(cs, i1)} })

AssertIsEqual(cs, i1, i2) ==
  The({ The({ The({
        LET lhs == buildLogEntryFromVariable(o.cs, l.x)
            rhs == buildLogEntryFromVariable(o.cs, o.x)
            debugInfo == logEntry(<<"[">> \o lhs.format \o <<" != ">> \o rhs.format \o <<"]">>,
                                  lhs.toResolve \o rhs.toResolve)
        IN addAssertion(o.cs, newR1C(l.x, r.x, o.x, SingleOutput), debugInfo)
        : o \in {Constant(r.cs, i2)} })
        : r \in {Constant(l.cs, Cst(1))} })
        : l \in {Constant(cs, i1)} })

\* one round of the loop of mustBeLessOrEqVar, i from nbBits-1 down to 0;
\* p is the Variable p[i+1]
RECURSIVE lessOrEqVarLoop(_, _, _, _, _, _, _)
lessOrEqVarLoop(cs, binw, binbound, zero, p, i, debugInfo) ==
  IF i < 0 \/ cs.panicked THEN cs
  ELSE The({ The({ The({ The({ The({ The({
             lessOrEqVarLoop(addAssertion(o.cs, newR1C(l2.x, binw[i + 1], o.x, SingleOutput),
                                          debugInfo),
                             binw, binbound, zero, pi.x, i - 1, debugInfo)
             : o \in {Constant(l2.cs, Cst(0))} })
             : l2 \in {Sub(l1.cs, Var(l1.x), Var(binw[i + 1]))} })
             : l1 \in {Sub(t.cs, Var(getOneVariable), Var(t.x))} })
             : t \in {Select(pi.cs, binbound[i + 1], Var(zero), Var(p))} })
             : pi \in {Select(p1.cs, binbound[i + 1], Var(p1.x), Var(p))} })
             : p1 \in {Mul(cs, <<Var(p), Var(binw[i + 1])>>)} })

\* mustBeLessOrEqVar with the bits of w and of bound exchanged in the loop
mustBeLessOrEqVar_SwappedBits(cs, w, bound) ==
  LET dbgInfoW == buildLogEntryFromVariable(cs, w)
      dbgInfoBound == buildLogEntryFromVariable(cs, bound)
      debugInfo == logEntry(dbgInfoW.format \o <<" <= ">> \o dbgInfoBound.format \o getCallStack,
                            dbgInfoW.toResolve \o dbgInfoBound.toResolve)
  IN The({ The({ The({ The({
           lessOrEqVarLoop(zero.cs, binbound.x, binw.x, zero.x, one.x, nbBits - 1, debugInfo)
           : zero \in {Constant(one.cs, Cst(0))} })
           : one \in {Constant(binbound.cs, Cst(1))} })
           : binbound \in {ToBinary(binw.cs, bound, nbBits)} })
           : binw \in {ToBinary(cs, w, nbBits)} })

mustBeLessOrEqVar(cs, w, bound) ==
  LET dbgInfoW == buildLogEntryFromVariable(cs, w)
      dbgInfoBound == buildLogEntryFromVariable(cs, bound)
      debugInfo == logEntry(dbgInfoW.format \o <<" <= ">> \o dbgInfoBound.format \o getCallStack,
                            dbgInfoW.toResolve \o dbgInfoBound.toResolve)
  IN The({ The({ The({ The({
           lessOrEqVarLoop(zero.cs, binw.x, binbound.x, zero.x, one.x, nbBits - 1, debugInfo)
           : zero \in {Constant(one.cs, Cst(0))} })
           : one \in {Constant(binbound.cs, Cst(1))} })
           : binbound \in {ToBinary(binw.cs, bound, nbBits)} })
           : binw \in {ToBinary(cs, w, nbBits)} })

Abs(n) == IF n < 0 THEN -n ELSE n

\* the words of the bound read most significant first
BoundWord_BigEndian(bound, i) ==
  (Abs(bound) \div Pow2(wordSize * (nbWords - 1 - i))) % Pow2(wordSize)

\* bound.Bits()[i] after padding: word i of |bound|, least significant word first
BoundWord(bound, i) == (Abs(bound) \div Pow2(wordSize * i)) % Pow2(wordSize)

\* the loops of mustBeLessOrEqCst: i from nbWords-1 down to 0, j from 0 to wordSize-1;
\* p is the Variable p[(i+1)*wordSize-j]
RECURSIVE lessOrEqCstLoop(_, _, _, _, _, _, _)
lessOrEqCstLoop(cs, vBits, bound, p, i, j, debugInfo) ==
  IF i < 0 \/ cs.panicked THEN cs
  ELSE IF j >= wordSize THEN lessOrEqCstLoop(cs, vBits, bound, p, i - 1, 0, debugInfo)
  ELSE LET b == (BoundWord(bound, i) \div Pow2(wordSize - 1 - j)) % 2
           vBit == vBits[(i + 1) * wordSize - 1 - j + 1]
       IN IF b = 0
          THEN The({ The({ The({
                  lessOrEqCstLoop(addAssertion(o.cs, newR1C(l2.x, vBit, o.x, SingleOutput),
                                               debugInfo),
                                  vBits, bound, p, i, j + 1, debugInfo)
                  : o \in {Constant(l2.cs, Cst(0))} })
                  : l2 \in {Sub(l1.cs, Var(l1.x), Var(vBit))} })
                  : l1 \in {Sub(cs, Var(getOneVariable), Var(p))} })
          ELSE The({ lessOrEqCstLoop(m.cs, vBits, bound, m.x, i, j + 1, debugInfo)
                     : m \in {Mul(cs, <<Var(p), Var(vBit)>>)} })

mustBeLessOrEqCst(cs, v, bound) ==
  LET dbgInfoW == buildLogEntryFromVariable(cs, v)
      debugInfo == logEntry(dbgInfoW.format \o <<" <= ", ToString(bound)>> \o getCallStack,
                            dbgInfoW.toResolve)
  IN The({ The({ lessOrEqCstLoop(one.cs, vBits.x, bound, one.x, nbWords - 1, 0, debugInfo)
           : one \in {Constant(vBits.cs, Cst(1))} })
           : vBits \in {ToBinary(cs, v, nbBitsCst)} })

AssertIsLessOrEqual(cs, v0, bound) ==
  LET v == completeDanglingVariable(v0)
  IN IF bound.isVar
     THEN mustBeLessOrEqVar(cs, v, completeDanglingVariable(bound.v))
     ELSE mustBeLessOrEqCst(cs, v, bound.n)

\* allocate(v): a Variable with no wire of its own gets a fresh internal wire
allocate(cs, v) ==
  IF v.wire.vis = "unset" THEN newInternalVariable(cs) ELSE R(cs, v)

RECURSIVE printlnLoop(_, _, _, _)
printlnLoop(cs, a, i, entry) ==
  IF i > Len(a) THEN R(cs, entry)
  ELSE LET sep == IF i > 1 THEN <<" ">> ELSE <<>>
       IN IF a[i].isVar
          THEN The({ printlnLoop(av.cs, a, i + 1,
                                 logEntry(entry.format \o sep \o <<"%s">>,
                                          Append(entry.toResolve,
                                                 [cID |-> 0, vID |-> av.x.wire.id,
                                                  vis |-> av.x.wire.vis])))
                     : av \in {allocate(cs, a[i].v)} })
          ELSE printlnLoop(cs, a, i + 1,
                           logEntry(entry.format \o sep \o <<ToString(a[i].n)>>, entry.toResolve))

\* Println(a...): one log entry, prefixed by the caller's file:line
Println(cs, a) ==
  The({ [e.cs EXCEPT !.logs = Append(@, logEntry(e.x.format \o <<"\n">>, e.x.toResolve))]
        : e \in {printlnLoop(cs, a, 1, logEntry(<<"file.go:line ">>, <<>>))} })

(***************************************************************************)
(* The state machine: Define of a circuit with public A and secret B makes *)
(* up to MaxOps calls of the builder API.  vars holds the Variables the    *)
(* circuit has at hand (its fields A and B, still dangling, then the       *)
(* results of its calls), bits the result of its last ToBinary, last the   *)
(* last call with the constraint system it started from.                   *)
(***************************************************************************)
CS == [coeffs |-> coeffs, constraints |-> constraints, assertions |-> assertions,
       logs |-> logs, wires |-> wires, panicked |-> panicked]

\* the fields of noComputationCircuit after the declaration pass
A == Variable([vis |-> "public", id |-> 0], <<>>, FALSE)
B == Variable([vis |-> "secret", id |-> 0], <<>>, FALSE)

\* constants the circuit passes as operands
Consts == {0, 1, 3}

Variables == {vars[i] : i \in 1..Len(vars)}
Operands == {Var(v) : v \in Variables} \cup {Cst(n) : n \in Consts}
Pairs == {<<x, y>> : x \in Operands, y \in Operands}
VarTriples == {<<Var(x), Var(y), Var(z)>> : x \in {A, B}, y \in {A, B}, z \in Variables}

Init ==
  /\ coeffs = InitCoeffs
  /\ constraints = <<>>
  /\ assertions = <<>>
  /\ logs = <<>>
  /\ wires = [public |-> 1, secret |-> 1, internal |-> 0]
  /\ panicked = FALSE
  /\ vars = <<A, B>>
  /\ bits = <<>>
  /\ nbOps = 0
  /\ last = [op |-> "none", args |-> <<>>, nb |-> 0, id |-> "", pre |-> CS,
             res |-> NoVariable, resBits |-> <<>>]

CanCall == nbOps < MaxOps /\ ~panicked

Commit(cs) ==
  /\ coeffs' = cs.coeffs
  /\ constraints' = cs.constraints
  /\ assertions' = cs.assertions
  /\ logs' = cs.logs
  /\ wires' = cs.wires
  /\ panicked' = cs.panicked
  /\ nbOps' = nbOps + 1

Called(op, args, nb, id, res, resBits) ==
  last' = [op |-> op, args |-> args, nb |-> nb, id |-> id, pre |-> CS,
           res |-> res, resBits |-> resBits]

\* a call that returns a Variable: the circuit keeps the result
Returns(op, args, r) ==
  /\ Commit(r.cs)
  /\ vars' = Append(vars, r.x)
  /\ Called(op, args, 0, "", r.x, <<>>)
  /\ UNCHANGED bits

\* a call that returns nothing
Returned(op, args, cs) ==
  /\ Commit(cs)
  /\ Called(op, args, 0, "", NoVariable, <<>>)
  /\ UNCHANGED <<vars, bits>>

DoAdd == CanCall /\ \E a \in Pairs \cup VarTriples : Returns("Add", a, Add(CS, a))

DoNeg == CanCall /\ \E i \in Operands \cup {Cst(-1)} : Returns("Neg", <<i>>, Neg(CS, i))

DoSub == CanCall /\ \E a \in Pairs : Returns("Sub", a, Sub(CS, a[1], a[2]))

DoMul == CanCall /\ \E a \in Pairs \cup VarTriples : Returns("Mul", a, Mul(CS, a))

DoInverse == CanCall /\ \E v \in Variables : Returns("Inverse", <<Var(v)>>, Inverse(CS, v))

DoDiv == CanCall /\ \E a \in Pairs : Returns("Div", a, Div(CS, a[1], a[2]))

DoXor == CanCall /\ \E a, b \in Variables : Returns("Xor", <<Var(a), Var(b)>>, Xor(CS, a, b))

DoOr == CanCall /\ \E a, b \in Variables : Returns("Or", <<Var(a), Var(b)>>, Or(CS, a, b))

DoAnd == CanCall /\ \E a, b \in Variables : Returns("And", <<Var(a), Var(b)>>, And(CS, a, b))

DoIsZero ==
  /\ CanCall
  /\ \E a \in Variables, id \in CurveIDs \cup {"UNKNOWN"} :
       \E r \in {IsZero(CS, a, id)} :
          /\ Commit(r.cs)
          /\ vars' = IF r.cs.panicked THEN vars ELSE Append(vars, r.x)
          /\ Called("IsZero", <<Var(a)>>, 0, id, IF r.cs.panicked THEN NoVariable ELSE r.x, <<>>)
          /\ UNCHANGED bits

DoToBinary ==
  /\ CanCall
  /\ \E a \in Variables, nb \in 0..nbBits :
       \E r \in {ToBinary(CS, a, nb)} :
          /\ Commit(r.cs)
          /\ bits' = IF r.cs.panicked THEN bits ELSE r.x
          /\ Called("ToBinary", <<Var(a)>>, nb, "", NoVariable, r.x)
          /\ UNCHANGED vars

\* the lists of bits the circuit packs: its last ToBinary, one Variable, or none
BitLists == {bits} \cup {<<v>> : v \in Variables} \cup {<<>>}

DoFromBinary ==
  /\ CanCall
  /\ \E b \in BitLists :
       Returns("FromBinary", [i \in 1..Len(b) |-> Var(b[i])], FromBinary(CS, b))

DoSelect ==
  /\ CanCall
  /\ \E b \in Variables, a \in Pairs :
       Returns("Select", <<Var(b), a[1], a[2]>>, Select(CS, b, a[1], a[2]))

DoConstant == CanCall /\ \E i \in Operands \cup {Cst(-1)} : Returns("Constant", <<i>>, Constant(CS, i))

DoAssertIsEqual ==
  CanCall /\ \E a \in Pairs : Returned("AssertIsEqual", a, AssertIsEqual(CS, a[1], a[2]))

DoAssertIsBoolean ==
  CanCall /\ \E v \in Variables : Returned("AssertIsBoolean", <<Var(v)>>, AssertIsBoolean(CS, v).cs)

\* the bounds of a range check: a Variable, or a constant in [0, 2^nbBits)
Bounds == {Var(v) : v \in Variables} \cup {Cst(n) : n \in 0..(Pow2(nbBitsCst) - 1)}

DoAssertIsLessOrEqual ==
  /\ CanCall
  /\ \E v \in Variables, bound \in Bounds :
       Returned("AssertIsLessOrEqual", <<Var(v), bound>>, AssertIsLessOrEqual(CS, v, bound))

DoPrintln ==
  /\ CanCall
  /\ \E a \in {<<x>> : x \in Operands} \cup {<<Var(A), Cst(3)>>} :
       Returned("Println", a, Println(CS, a))

Next ==
  \/ DoAdd \/ DoNeg \/ DoSub \/ DoMul \/ DoInverse \/ DoDiv
  \/ DoXor \/ DoOr \/ DoAnd \/ DoIsZero \/ DoToBinary \/ DoFromBinary
  \/ DoSelect \/ DoConstant
  \/ DoAssertIsEqual \/ DoAssertIsBoolean \/ DoAssertIsLessOrEqual \/ DoPrintln

Spec == Init /\ [][Next]_vars_all

(***************************************************************************)
(* Witnesses: a witness gives every wire a value of the field; the one     *)
(* wire has the value 1.  A constraint or assertion (L, R, O) is satisfied *)
(* when <L> * <R> = <O> in the field.                                      *)
(***************************************************************************)
\* the field the witnesses of the checks below live in
FieldP == Modulus("BN254")

\* the fields of the witnesses of the range checks, with a Variable and with a constant
\* bound: they hold every value below 2^nbBits and 2^nbBitsCst
RangeP == Modulus("BLS24_315")
RangePCst == Modulus("BW6_633")

WireKey(t) == [vis |-> t.vis, id |-> t.vID]

TermWires(l) == {WireKey(l[i]) : i \in {j \in 1..Len(l) : l[j].vis # "one"}}

RECURSIVE EvalFrom(_, _, _, _, _)
EvalFrom(cs, l, w, P, i) ==
  IF i > Len(l) THEN 0
  ELSE (Coeff(cs, l[i].cID) * (IF l[i].vis = "one" THEN 1 ELSE w[WireKey(l[i])])
        + EvalFrom(cs, l, w, P, i + 1)) % P

\* the value of the linear expression l under the witness w, in the field of order P
Eval(cs, l, w, P) == EvalFrom(cs, l, w, P, 1)

Satisfied(cs, c, w, P) ==
  (Eval(cs, c.L, w, P) * Eval(cs, c.R, w, P) - Eval(cs, c.O, w, P)) % P = 0

R1CWires(c) == TermWires(c.L) \cup TermWires(c.R) \cup TermWires(c.O)

\* the value of an operand: a Variable by its (completed) linear expression
OperandValue(cs, op, w, P) ==
  IF op.isVar THEN Eval(cs, completeDanglingVariable(op.v).linExp, w, P) ELSE op.n % P

OperandWires(op) ==
  IF op.isVar THEN TermWires(completeDanglingVariable(op.v).linExp) ELSE {}

\* all the witnesses over the set S of wires
WitnessesOver(S, P) == [S -> 0..(P - 1)]

\* the entries a call appended to a list
Appended(now, before) == SubSeq(now, Len(before) + 1, Len(now))

IsPrefix(before, now) == Len(before) <= Len(now) /\ SubSeq(now, 1, Len(before)) = before

NewConstraints == Appended(constraints, last.pre.constraints)
NewAssertions == Appended(assertions, last.pre.assertions)
NewLogs == Appended(logs, last.pre.logs)
NewWires == wires.internal - last.pre.wires.internal

(***************************************************************************)
(* C1  Select                                                              *)
(***************************************************************************)
\* b*(i1 - i2) + i2 under the witness w
SelectValue(w, P) ==
  LET b == OperandValue(CS, last.args[1], w, P)
      i1 == OperandValue(CS, last.args[2], w, P)
      i2 == OperandValue(CS, last.args[3], w, P)
  IN (b * (i1 - i2) + i2) % P

SelectOperandWires ==
  OperandWires(last.args[1]) \cup OperandWires(last.args[2]) \cup OperandWires(last.args[3])

\* C1 (the claim as stated): select(b, i1, i2) is b*(i1 - i2) + i2 for every kind of
\* operands: with a Variable among i1, i2 one constraint is appended and every witness
\* satisfying it gives the result that value; with two constants no constraint is
\* appended and the returned expression evaluates to that value.
C1_SelectYields ==
  last.op = "Select" =>
    IF last.args[2].isVar \/ last.args[3].isVar
    THEN /\ Len(NewConstraints) = 1
         /\ \A w \in WitnessesOver(SelectOperandWires \cup R1CWires(NewConstraints[1]), FieldP) :
              Satisfied(CS, NewConstraints[1], w, FieldP)
                => Eval(CS, last.res.linExp, w, FieldP) = SelectValue(w, FieldP)
    ELSE /\ Len(NewConstraints) = 0
         /\ \A w \in WitnessesOver(SelectOperandWires, FieldP) :
              Eval(CS, last.res.linExp, w, FieldP) = SelectValue(w, FieldP)

(***************************************************************************)
(* C2  Mul                                                                 *)
(***************************************************************************)
\* the linear expression a Variable operand is read as
CL(v) == completeDanglingVariable(v).linExp

InternalTerm(id) == <<[cID |-> CoeffIdOne, vID |-> id, vis |-> "internal"]>>

AllVars(args) == \A i \in 1..Len(args) : args[i].isVar

\* the k-th constraint of a product of Variables: (product so far) * (operand k+1) = fresh wire
FoldConstraint(args, first, k) ==
  [L |-> IF k = 1 THEN CL(args[1].v) ELSE InternalTerm(first + k - 2),
   R |-> CL(args[k + 1].v),
   O |-> InternalTerm(first + k - 1),
   hint |-> SingleOutput]

\* C2: Mul with exactly one constant operand appends no constraint and allocates no
\* wire; Mul of two Variables allocates one wire z and appends the one constraint
\* (x, y, z); a product of n Variables appends n-1 constraints, folded from the left.
C2_MulConstraints ==
  last.op = "Mul" =>
    /\ (Len(last.args) = 2 /\ last.args[1].isVar # last.args[2].isVar)
         => (NewConstraints = <<>> /\ NewWires = 0)
    /\ AllVars(last.args)
         => /\ NewWires = Len(last.args) - 1
            /\ NewConstraints =
                 [k \in 1..(Len(last.args) - 1) |->
                    FoldConstraint(last.args, last.pre.wires.internal, k)]
            /\ last.res.linExp = InternalTerm(wires.internal - 1)
    /\ NewAssertions = <<>>

C2_Witness ==
  /\ last.op = "Mul" /\ Len(last.args) = 3 /\ AllVars(last.args)
  /\ Len(NewConstraints) = 2
  /\ Len(last.pre.constraints) > 0

(***************************************************************************)
(* C3  AssertIsBoolean                                                     *)
(***************************************************************************)
\* the Variables the circuit holds
Handles == Variables \cup {bits[i] : i \in 1..Len(bits)}

IsBooleanAssertion(i) == logs[assertions[i].log + 1].format[1] = "error AssertIsBoolean"

\* the boolean assertions on the linear expression l
BooleanAssertions(l) ==
  {i \in 1..Len(assertions) : assertions[i].L = l /\ IsBooleanAssertion(i)}

\* C3 (the claim as stated): AssertIsBoolean on a Variable not yet flagged flags it and
\* appends one assertion (v, 1 - v, 0), and appends nothing on a flagged one; so after
\* a call of AssertIsBoolean on a Variable, whatever asserted it boolean before, the
\* assertion list holds exactly one boolean assertion for it.  (A Variable is told
\* from the others by its linear expression, so one that shares it is not counted.)
C3_OneBooleanAssertion ==
  last.op = "AssertIsBoolean" =>
    LET h == last.args[1].v
    IN (\A g \in Handles \ {h} : CL(g) # CL(h))
         => /\ Cardinality(BooleanAssertions(CL(h))) = 1
            /\ \A i \in BooleanAssertions(CL(h)) :
                 \A w \in WitnessesOver(TermWires(CL(h)), FieldP) :
                   /\ Eval(CS, assertions[i].R, w, FieldP)
                        = (1 - Eval(CS, CL(h), w, FieldP)) % FieldP
                   /\ Eval(CS, assertions[i].O, w, FieldP) = 0

(***************************************************************************)
(* Solving: all the witnesses that extend a given one and satisfy a list   *)
(* of constraints.  The wires a constraint brings in take every value of   *)
(* the field, except the bits of a binary decomposition, which are the     *)
(* binary digits of the decomposed value (the hint BinaryDec).             *)
(***************************************************************************)
PosIn(l, k) == CHOOSE i \in 1..Len(l) : WireKey(l[i]) = k

RECURSIVE CoeffOf(_, _, _, _)
CoeffOf(cs, l, k, i) ==
  IF i > Len(l) THEN 0
  ELSE (IF WireKey(l[i]) = k /\ l[i].vis # "one" THEN Coeff(cs, l[i].cID) ELSE 0)
       + CoeffOf(cs, l, k, i + 1)

\* the constraint brings in one wire z, only in O and with coefficient 1 or -1: then
\* L * R = c*z + rest has the one solution z = c * (L * R - rest)
IsOutputOnly(cs, c, new) ==
  /\ Cardinality(new) = 1
  /\ new \cap (TermWires(c.L) \cup TermWires(c.R)) = {}
  /\ \A k \in new : CoeffOf(cs, c.O, k, 1) \in {1, -1}

Extensions(cs, w, c, P) ==
  IF c.hint = BinaryDec
  THEN LET free == (TermWires(c.R) \cup TermWires(c.O)) \ DOMAIN w
       IN {w2 \in {LET w1 == w @@ x
                       val == Eval(cs, c.O, w1, P)
                       newBits == TermWires(c.L) \ DOMAIN w1
                   IN w1 @@ [k \in newBits |-> Bit(val, PosIn(c.L, k) - 1)]
                   : x \in WitnessesOver(free, P)} : Satisfied(cs, c, w2, P)}
  ELSE LET new == R1CWires(c) \ DOMAIN w
       IN IF IsOutputOnly(cs, c, new)
          THEN LET z == CHOOSE k \in new : TRUE
                   w0 == w @@ (z :> 0)
                   zv == (CoeffOf(cs, c.O, z, 1)
                          * (Eval(cs, c.L, w0, P) * Eval(cs, c.R, w0, P) - Eval(cs, c.O, w0, P))) % P
               IN {w2 \in {w @@ (z :> zv)} : Satisfied(cs, c, w2, P)}
          ELSE {w2 \in {w @@ x : x \in WitnessesOver(new, P)} : Satisfied(cs, c, w2, P)}

RECURSIVE SolveFrom(_, _, _, _, _)
SolveFrom(cs, cons, k, W, P) ==
  IF k > Len(cons) \/ W = {} THEN W
  ELSE SolveFrom(cs, cons, k + 1, UNION {Extensions(cs, w, cons[k], P) : w \in W}, P)

\* the witnesses extending w that satisfy the constraints cons
Solutions(cs, cons, w, P) == SolveFrom(cs, cons, 1, {w}, P)

AllSatisfied(cs, as, w, P) == \A i \in 1..Len(as) : Satisfied(cs, as[i], w, P)

(***************************************************************************)
(* C4  AssertIsLessOrEqual, constant bound                                 *)
(***************************************************************************)
IsRangeCheckCst == last.op = "AssertIsLessOrEqual" /\ ~last.args[2].isVar

\* C4: with a constant bound B in [0, 2^nbBitsCst), for every value v in [0, 2^nbBitsCst)
\* of the checked Variable, with the bits of v and the products p fixed by the
\* emitted constraints, the emitted assertions are all satisfied iff v <= B.
C4_LessOrEqCst ==
  IsRangeCheckCst =>
    \A w0 \in WitnessesOver(OperandWires(last.args[1]), RangePCst) :
      LET v == OperandValue(CS, last.args[1], w0, RangePCst)
          W == Solutions(CS, NewConstraints, w0, RangePCst)
      IN /\ (W # {}) = (v < Pow2(nbBitsCst))
         /\ \A w \in W : AllSatisfied(CS, NewAssertions, w, RangePCst) = (v <= last.args[2].n)

C4_Witness ==
  /\ IsRangeCheckCst
  /\ last.args[2].n = 1
  /\ Len(last.pre.constraints) > 0
  /\ \E w0 \in WitnessesOver(OperandWires(last.args[1]), RangePCst) :
       /\ OperandValue(CS, last.args[1], w0, RangePCst) = 2
       /\ \E w \in Solutions(CS, NewConstraints, w0, RangePCst) :
            ~AllSatisfied(CS, NewAssertions, w, RangePCst)

(***************************************************************************)
(* C5  AssertIsLessOrEqual, Variable bound                                 *)
(***************************************************************************)
IsRangeCheckVar == last.op = "AssertIsLessOrEqual" /\ last.args[2].isVar

\* the assertions of the range check itself, without those on the bits
RangeAssertions ==
  LET idx == {i \in (Len(last.pre.assertions) + 1)..Len(assertions) : ~IsBooleanAssertion(i)}
  IN [i \in 1..Cardinality(idx) |->
        assertions[CHOOSE j \in idx : Cardinality({k \in idx : k < j}) = i - 1]]

\* the wire of p[i]: after the 2*nbBits wires of the two decompositions, each round
\* (from i = nbBits-1 down) allocates the product p1, then p[i], then t
PWire(i) ==
  [vis |-> "internal", id |-> last.pre.wires.internal + 2 * nbBits + 3 * (nbBits - 1 - i) + 1]

\* C5: with a Variable bound, for all values w, bound in [0, 2^nbBits), with both bit
\* decompositions and all select and product constraints satisfied, the nbBits
\* assertions (1 - t - binw[i]) * binw[i] = 0 are all satisfied iff w <= bound; and
\* when they are, p[i] = 1 exactly when bits i..nbBits-1 of w and of bound are equal.
C5_LessOrEqVar ==
  IsRangeCheckVar =>
    /\ Len(RangeAssertions) = nbBits
    /\ \A w0 \in WitnessesOver(OperandWires(last.args[1]) \cup OperandWires(last.args[2]), RangeP) :
         LET wv == OperandValue(CS, last.args[1], w0, RangeP)
             bv == OperandValue(CS, last.args[2], w0, RangeP)
             W == Solutions(CS, NewConstraints, w0, RangeP)
         IN /\ (W # {}) = (wv < Pow2(nbBits) /\ bv < Pow2(nbBits))
            /\ \A w \in W :
                 /\ AllSatisfied(CS, RangeAssertions, w, RangeP) = (wv <= bv)
                 /\ AllSatisfied(CS, RangeAssertions, w, RangeP)
                      => \A i \in 0..(nbBits - 1) :
                           (w[PWire(i)] = 1) = (wv \div Pow2(i) = bv \div Pow2(i))

C5_Witness ==
  /\ IsRangeCheckVar
  /\ Len(last.pre.constraints) > 0
  /\ \E w0 \in WitnessesOver(OperandWires(last.args[1]) \cup OperandWires(last.args[2]), RangeP) :
       /\ OperandValue(CS, last.args[1], w0, RangeP) = 2
       /\ OperandValue(CS, last.args[2], w0, RangeP) = 1
       /\ \E w \in Solutions(CS, NewConstraints, w0, RangeP) :
            ~AllSatisfied(CS, RangeAssertions, w, RangeP)

(***************************************************************************)
(* C6  IsZero                                                              *)
(***************************************************************************)
RECURSIVE PowMod(_, _, _)
PowMod(a, e, P) == IF e = 0 THEN 1 % P ELSE (a * PowMod(a, e - 1, P)) % P

\* the number of 1 bits of n among the bits i..1
RECURSIVE OnesDownTo1(_, _)
OnesDownTo1(n, i) == IF i < 1 THEN 0 ELSE Bit(n, i) + OnesDownTo1(n, i - 1)

IsZeroDone == last.op = "IsZero" /\ ~panicked

\* C6: over a field of odd prime order p, under every witness satisfying the
\* constraints IsZero(a) emitted, the returned expression is 1 when a = 0 and 0 when
\* a # 0: one squaring per bit of p from the highest down to bit 1, one product by a
\* per 1 bit, and a final squaring compute a^(p-1), and the result is 1 - a^(p-1).
C6_IsZero ==
  IsZeroDone =>
    LET P == Modulus(last.id)
        top == ByteLen(P) * 8 - 1
    IN /\ Len(NewConstraints) = top + OnesDownTo1(P, top) + 1
       /\ \A w0 \in WitnessesOver(OperandWires(last.args[1]), P) :
            LET av == OperandValue(CS, last.args[1], w0, P)
                W == Solutions(CS, NewConstraints, w0, P)
            IN /\ W # {}
               /\ \A w \in W :
                    /\ Eval(CS, constraints[Len(constraints)].O, w, P) = PowMod(av, P - 1, P)
                    /\ Eval(CS, last.res.linExp, w, P) = (1 - PowMod(av, P - 1, P)) % P
                    /\ Eval(CS, last.res.linExp, w, P) = IF av = 0 THEN 1 ELSE 0

C6_Witness ==
  /\ IsZeroDone
  /\ last.id = "BW6_761"
  /\ Len(last.pre.constraints) > 0
  /\ \E w0 \in WitnessesOver(OperandWires(last.args[1]), Modulus(last.id)) :
       /\ OperandValue(CS, last.args[1], w0, Modulus(last.id)) = 2
       /\ \E w \in Solutions(CS, NewConstraints, w0, Modulus(last.id)) :
            Eval(CS, last.res.linExp, w, Modulus(last.id)) = 0

(***************************************************************************)
(* C7  ToBinary and FromBinary                                             *)
(***************************************************************************)
\* the decomposition constraint of the bits the circuit holds
BitsConstraints ==
  {i \in 1..Len(constraints) :
     /\ constraints[i].hint = BinaryDec
     /\ Len(constraints[i].L) = Len(bits)
     /\ \A k \in 1..Len(bits) : WireKey(constraints[i].L[k]) = bits[k].wire}

\* l is the sum of 2^i * (wire first+i) for i in 0..n-1, in this order
IsBinarySum(l, first, n) ==
  /\ Len(l) = n
  /\ \A i \in 0..(n - 1) :
       /\ WireKey(l[i + 1]) = [vis |-> "internal", id |-> first + i]
       /\ Coeff(CS, l[i + 1].cID) = Pow2(i)

\* C7: for n >= 1, ToBinary(a, n) returns n fresh internal wires b_0..b_(n-1), least
\* significant first, and appends the one constraint (sum of 2^i * b_i, 1, a) with the
\* hint of a binary decomposition; FromBinary of those bits appends no constraint,
\* allocates no wire and returns sum of 2^i * b_i, so that under every witness
\* satisfying the decomposition constraint it equals a.
C7_BinaryRoundTrip ==
  /\ (last.op = "ToBinary" /\ last.nb >= 1) =>
       /\ NewWires = last.nb
       /\ last.resBits = [i \in 1..last.nb |->
                            Variable([vis |-> "internal", id |-> last.pre.wires.internal + i - 1],
                                     InternalTerm(last.pre.wires.internal + i - 1), FALSE)]
       /\ Len(NewConstraints) = 1
       /\ NewConstraints[1].hint = BinaryDec
       /\ IsBinarySum(NewConstraints[1].L, last.pre.wires.internal, last.nb)
       /\ NewConstraints[1].R = getOneVariable.linExp
       /\ NewConstraints[1].O = CL(last.args[1].v)
  /\ (last.op = "FromBinary" /\ Len(bits) >= 1 /\ last.args = [i \in 1..Len(bits) |-> Var(bits[i])]) =>
       /\ NewConstraints = <<>>
       /\ NewWires = 0
       /\ IsBinarySum(last.res.linExp, bits[1].wire.id, Len(bits))
       /\ BitsConstraints # {}
       /\ \A i \in BitsConstraints :
            \A w \in WitnessesOver(R1CWires(constraints[i]), FieldP) :
              Satisfied(CS, constraints[i], w, FieldP)
                => Eval(CS, last.res.linExp, w, FieldP) = Eval(CS, constraints[i].O, w, FieldP)

\* ToBinary(A, 3) then FromBinary of its bits: the value 5 has the bits 1, 0, 1
C7_Witness ==
  /\ last.op = "FromBinary" /\ Len(bits) = 3
  /\ last.args = [i \in 1..Len(bits) |-> Var(bits[i])]
  /\ \E i \in BitsConstraints :
       \E w \in Solutions(CS, <<constraints[i]>>, [k \in {A.wire} |-> 5], FieldP) :
         /\ [k \in 1..3 |-> w[bits[k].wire]] = <<1, 0, 1>>
         /\ Eval(CS, last.res.linExp, w, FieldP) = 5

(***************************************************************************)
(* C8  ToBinary with no bit                                                *)
(***************************************************************************)
\* C8 (the claim as stated): ToBinary(a, 0) returns the empty list and appends the one
\* trivial constraint (0, 1, a); it allocates no wire and appends no assertion.
C8_ToBinaryNoBit ==
  (last.op = "ToBinary" /\ last.nb = 0) =>
    /\ ~panicked
    /\ last.resBits = <<>>
    /\ NewWires = 0
    /\ NewAssertions = <<>>
    /\ Len(NewConstraints) = 1
    /\ TermWires(NewConstraints[1].L) = {}
    /\ \A w \in WitnessesOver(R1CWires(NewConstraints[1]), FieldP) :
         /\ Eval(CS, NewConstraints[1].L, w, FieldP) = 0
         /\ Eval(CS, NewConstraints[1].R, w, FieldP) = 1
         /\ Eval(CS, NewConstraints[1].O, w, FieldP)
              = OperandValue(CS, last.args[1], w, FieldP)

(***************************************************************************)
(* C9  Xor, Or, And                                                        *)
(***************************************************************************)
IsGate == last.op \in {"Xor", "Or", "And"}

GateTruth(op, a, b) ==
  CASE op = "Xor" -> (a + b) % 2
    [] op = "Or" -> IF a + b > 0 THEN 1 ELSE 0
    [] op = "And" -> a * b

\* the wire of the output z of the gate
GateOutput == [vis |-> "internal", id |-> last.pre.wires.internal]

\* C9: each gate appends the boolean assertions on its two inputs and then one
\* constraint on a fresh output z: Xor (2a, b, a + b - z), Or (b, 1 - a, z - a),
\* And (a, b, z); for boolean values of a and b the constraint has exactly one
\* solution for z, the value of the gate's truth table.
C9_Gates ==
  IsGate =>
    /\ NewWires = 1
    /\ last.res.linExp = InternalTerm(GateOutput.id)
    /\ Len(NewAssertions) = 2
    /\ \A i \in 1..2 :
         /\ NewAssertions[i].L = CL(last.args[i].v)
         /\ IsBooleanAssertion(Len(last.pre.assertions) + i)
    /\ Len(NewConstraints) = 1
    /\ \A w \in WitnessesOver(OperandWires(last.args[1]) \cup OperandWires(last.args[2])
                              \cup {GateOutput}, FieldP) :
         LET a == OperandValue(CS, last.args[1], w, FieldP)
             b == OperandValue(CS, last.args[2], w, FieldP)
             z == w[GateOutput]
             c == NewConstraints[1]
             l == Eval(CS, c.L, w, FieldP)
             r == Eval(CS, c.R, w, FieldP)
             o == Eval(CS, c.O, w, FieldP)
         IN /\ last.op = "Xor" => (l = (2 * a) % FieldP /\ r = b /\ o = (a + b - z) % FieldP)
            /\ last.op = "Or" => (l = b /\ r = (1 - a) % FieldP /\ o = (z - a) % FieldP)
            /\ last.op = "And" => (l = a /\ r = b /\ o = z)
            /\ (a \in {0, 1} /\ b \in {0, 1})
                 => (Satisfied(CS, c, w, FieldP) = (z = GateTruth(last.op, a, b)))

\* a gate on two different inputs, both 1, after an earlier call
C9_Witness ==
  /\ IsGate /\ last.op = "Xor"
  /\ Len(last.pre.constraints) > 0
  /\ OperandWires(last.args[1]) # OperandWires(last.args[2])
  /\ \E w \in WitnessesOver(OperandWires(last.args[1]) \cup OperandWires(last.args[2])
                            \cup {GateOutput}, FieldP) :
       /\ OperandValue(CS, last.args[1], w, FieldP) = 1
       /\ OperandValue(CS, last.args[2], w, FieldP) = 1
       /\ Satisfied(CS, NewConstraints[1], w, FieldP)
       /\ w[GateOutput] = 0

(***************************************************************************)
(* C10  AssertIsEqual and the noComputation circuit                        *)
(***************************************************************************)
\* l is what the operand op is read as: its linear expression, or its value on the one wire
ReadsAs(l, op) ==
  IF op.isVar THEN l = CL(op.v)
  ELSE /\ TermWires(l) = {}
       /\ Eval(CS, l, <<>>, FieldP) = op.n % FieldP

\* the circuit noComputation: Define is the one call AssertIsEqual(A, B)
IsNoComputation == nbOps = 1 /\ last.op = "AssertIsEqual" /\ last.args = <<Var(A), Var(B)>>

InputWitness(a, b) == (A.wire :> (a % FieldP)) @@ (B.wire :> (b % FieldP))

\* C10: AssertIsEqual(i1, i2) appends one assertion (i1, one wire, i2) and one log
\* entry resolving the terms of i1 then those of i2, no constraint and no wire; the
\* system of noComputation has no constraint and one assertion, satisfied iff A = B.
C10_AssertIsEqual ==
  /\ last.op = "AssertIsEqual" =>
       /\ NewConstraints = <<>>
       /\ NewWires = 0
       /\ Len(NewAssertions) = 1
       /\ ReadsAs(NewAssertions[1].L, last.args[1])
       /\ NewAssertions[1].R = getOneVariable.linExp
       /\ ReadsAs(NewAssertions[1].O, last.args[2])
       /\ Len(NewLogs) = 1
       /\ NewAssertions[1].log = Len(last.pre.logs)
       /\ NewLogs[1].toResolve = NewAssertions[1].L \o NewAssertions[1].O
  /\ IsNoComputation =>
       /\ constraints = <<>>
       /\ Len(assertions) = 1
       /\ \A a, b \in 0..(FieldP - 1) :
            Satisfied(CS, assertions[1], InputWitness(a, b), FieldP) = (a = b)
       /\ Satisfied(CS, assertions[1], InputWitness(42, 42), FieldP)
       /\ ~Satisfied(CS, assertions[1], InputWitness(42, 8000), FieldP)

C10_Witness ==
  /\ IsNoComputation
  /\ Len(assertions) = 1
  /\ ~Satisfied(CS, assertions[1], InputWitness(42, 8000), FieldP)

(***************************************************************************)
(* C11  The lists of constraints, assertions and log entries only grow     *)
(***************************************************************************)
\* C11: every builder operation leaves the entries already in the constraint list, the
\* assertion list and the log list unchanged and in place; what it adds comes after them.
C11_AppendOnly ==
  [][/\ IsPrefix(constraints, constraints')
     /\ IsPrefix(assertions, assertions')
     /\ IsPrefix(logs, logs')]_vars_all

\* a call that found entries in all three lists and added to all three
C11_Witness ==
  /\ last.pre.constraints # <<>>
  /\ last.pre.assertions # <<>>
  /\ last.pre.logs # <<>>
  /\ NewConstraints # <<>>
  /\ NewAssertions # <<>>
  /\ NewLogs # <<>>

(***************************************************************************)
(* C12  Dangling Variables are completed before they are read              *)
(***************************************************************************)
\* a declared Variable nothing has used yet: a wire and an empty linear expression
IsDangling(v) == Len(v.linExp) = 0 /\ v.wire.vis # "unset"

ArgsWires(args) == UNION {OperandWires(args[i]) : i \in 1..Len(args)}

RECURSIVE SumOfOperands(_, _, _, _)
SumOfOperands(args, w, P, i) ==
  IF i > Len(args) THEN 0
  ELSE (OperandValue(CS, args[i], w, P) + SumOfOperands(args, w, P, i + 1)) % P

\* C12 (the claim as stated): an operation reads a dangling Variable operand as 1*wire.
\* For the operations whose result is a linear expression of their operands this says:
\* under every witness the result of Add, Neg, Sub and Constant is the sum, the
\* opposite, the difference and the value of the completed operands; and Neg of a
\* dangling Variable is the one term -1*wire, never the empty expression.
C12_DanglingCompleted ==
  /\ last.op \in {"Add", "Neg", "Sub", "Constant"} =>
       \A w \in WitnessesOver(ArgsWires(last.args) \cup TermWires(last.res.linExp), FieldP) :
         LET res == Eval(CS, last.res.linExp, w, FieldP)
             v1 == OperandValue(CS, last.args[1], w, FieldP)
         IN CASE last.op = "Add" -> res = SumOfOperands(last.args, w, FieldP, 1)
              [] last.op = "Neg" -> res = (-v1) % FieldP
              [] last.op = "Sub" -> res = (v1 - OperandValue(CS, last.args[2], w, FieldP)) % FieldP
              [] last.op = "Constant" -> res = v1
  /\ (last.op = "Neg" /\ last.args[1].isVar /\ IsDangling(last.args[1].v)) =>
       last.res.linExp = <<[cID |-> CoeffIdMinusOne, vID |-> last.args[1].v.wire.id,
                            vis |-> last.args[1].v.wire.vis]>>

(***************************************************************************)
(* C13  The frame of the pure arithmetic operations                        *)
(***************************************************************************)
\* a call of Add, Neg, Sub or Constant, or a Mul of one constant and one Variable,
\* which is one call of mulConstant
IsPureArithmetic ==
  \/ last.op \in {"Add", "Neg", "Sub", "Constant"}
  \/ /\ last.op = "Mul"
     /\ Len(last.args) = 2
     /\ last.args[1].isVar # last.args[2].isVar

\* C13: Add, Neg, Sub, mulConstant and Constant leave the constraint list, the assertion
\* list, the log list and the wire counts as they were, the coefficient table only
\* grows, and the Variables the circuit holds, operands included, keep their linear
\* expressions.
C13_PureArithmeticFrame ==
  IsPureArithmetic =>
    /\ constraints = last.pre.constraints
    /\ assertions = last.pre.assertions
    /\ logs = last.pre.logs
    /\ wires = last.pre.wires
    /\ IsPrefix(last.pre.coeffs, coeffs)
    /\ \A i \in 1..Len(last.args) : last.args[i].isVar => last.args[i].v \in Variables
    /\ vars[1] = A /\ vars[2] = B

\* a pure operation on a constant and a dangling Variable, after a call that left
\* constraints, which adds a coefficient to the table
C13_Witness ==
  /\ IsPureArithmetic
  /\ last.pre.constraints # <<>>
  /\ last.pre.assertions # <<>>
  /\ Len(coeffs) > Len(last.pre.coeffs)
  /\ \E i \in 1..Len(last.args) : last.args[i].isVar /\ IsDangling(last.args[i].v)
  /\ \E i \in 1..Len(last.args) : ~last.args[i].isVar

====
